---- MODULE Spec2Model ----
(***************************************************************************)
(* GitHub Contribution Reporter (src/github_reporter.py).                  *)
(*                                                                         *)
(* The reporter is a single-threaded pipeline: parse_repo_url,             *)
(* get_repo_info, get_contributors (paginated), get_commit_stats (polled), *)
(* one profile request per contributor, merge, sort, output.  Every        *)
(* request goes through make_request, which retries once after a           *)
(* rate-limit response.  The hosting service is the environment: each GET  *)
(* is answered by a response drawn from a small set.                       *)
(*                                                                         *)
(* Strings that the code inspects character by character (the repository   *)
(* reference) are sequences of one-character strings.  Python dicts are    *)
(* records whose DOMAIN is the set of keys present; None is the value      *)
(* None.                                                                   *)
(***************************************************************************)
EXTENDS Integers, Sequences, FiniteSets, TLC

(***************************************************************************)
(* Bounds of the model.                                                    *)
(***************************************************************************)
\* longest path part of a repository reference handed to parse_repo_url
MaxPathLen == 5

(***************************************************************************)
(* Python values.                                                          *)
(***************************************************************************)
\* a string is a sequence of one-character strings, '' is <<>>; None is told
\* apart from every string by its element, which is no character
None == <<"None">>
EmptyStr == <<>>

\* d.get(k, default) of a dict d
Get(d, k, default) == IF k \in DOMAIN d THEN d[k] ELSE default

(***************************************************************************)
(* Strings as sequences of characters, and the str methods the parser      *)
(* uses.                                                                   *)
(***************************************************************************)
Slash == "/"

\* all sequences over S of length 0..n
RECURSIVE SeqsUpTo(_, _)
SeqsUpTo(S, n) ==
    IF n = 0 THEN {<<>>}
    ELSE LET shorter == SeqsUpTo(S, n - 1)
         IN  shorter \cup {Append(s, c) : s \in {t \in shorter : Len(t) = n - 1}, c \in S}

Digits == <<"0", "1", "2", "3", "4", "5", "6", "7", "8", "9">>

\* str(n) of a natural number
RECURSIVE Str(_)
Str(n) == IF n < 10 THEN <<Digits[n + 1]>> ELSE Str(n \div 10) \o <<Digits[(n % 10) + 1]>>

\* s.startswith(p)
StartsWith(s, p) == Len(s) >= Len(p) /\ SubSeq(s, 1, Len(p)) = p

\* s[i:] with a 1-based first index
Tail_From(s, i) == SubSeq(s, i, Len(s))

\* smallest index of a character of set S in s, 0 when there is none
RECURSIVE FindAny(_, _, _)
FindAny(s, S, i) ==
    IF i > Len(s) THEN 0
    ELSE IF s[i] \in S THEN i
    ELSE FindAny(s, S, i + 1)

\* s.strip(c)
RECURSIVE LStrip(_, _)
LStrip(s, c) == IF s # <<>> /\ Head(s) = c THEN LStrip(Tail(s), c) ELSE s

RECURSIVE RStrip(_, _)
RStrip(s, c) ==
    IF s # <<>> /\ s[Len(s)] = c THEN RStrip(SubSeq(s, 1, Len(s) - 1), c) ELSE s

Strip(s, c) == RStrip(LStrip(s, c), c)

\* s.split(c): always at least one part; the empty string splits into ['']
RECURSIVE Split(_, _)
Split(s, c) ==
    LET i == FindAny(s, {c}, 1)
    IN  IF i = 0 THEN <<s>>
        ELSE <<SubSeq(s, 1, i - 1)>> \o Split(Tail_From(s, i + 1), c)

(***************************************************************************)
(* urllib.parse.urlparse(url).path : the scheme is the text before the     *)
(* first ':' when that text is made of scheme characters and starts with a *)
(* letter; a following '//' opens the network location, which ends at the  *)
(* next '/', '?' or '#'; the fragment and the query are cut off the rest.  *)
(***************************************************************************)
Letters == {"h", "t", "p", "s", "g", "i", "a", "b"}
SchemeChars == Letters \cup {"+", "-", "."}

UrlAfterScheme(url) ==
    LET i == FindAny(url, {":"}, 1)
    IN  IF /\ i > 1
           /\ url[1] \in Letters
           /\ \A k \in 1..(i - 1) : url[k] \in SchemeChars
        THEN Tail_From(url, i + 1)
        ELSE url

UrlAfterNetloc(rest) ==
    IF StartsWith(rest, <<Slash, Slash>>)
    THEN LET afterSlashes == Tail_From(rest, 3)
             j == FindAny(afterSlashes, {Slash, "?", "#"}, 1)
         IN  IF j = 0 THEN <<>> ELSE Tail_From(afterSlashes, j)
    ELSE rest

UrlPath(url) ==
    LET rest == UrlAfterNetloc(UrlAfterScheme(url))
        f == FindAny(rest, {"#"}, 1)
        noFragment == IF f = 0 THEN rest ELSE SubSeq(rest, 1, f - 1)
        q == FindAny(noFragment, {"?"}, 1)
    IN  IF q = 0 THEN noFragment ELSE SubSeq(noFragment, 1, q - 1)

(***************************************************************************)
(* parse_repo_url: a pair (owner, repo_name) or ValueError.                *)
(***************************************************************************)
Http == <<"h", "t", "t", "p">>

ValueError == [kind |-> "ValueError"]
Pair(owner, name) == [kind |-> "pair", owner |-> owner, name |-> name]

parse_repo_url(repo_url) ==
    IF StartsWith(repo_url, Http)
    THEN LET path_parts == Split(Strip(UrlPath(repo_url), Slash), Slash)
         IN  IF Len(path_parts) >= 2
             THEN Pair(path_parts[1], path_parts[2])
             ELSE ValueError
    ELSE LET parts == Split(repo_url, Slash)
         IN  IF Len(parts) = 2
             THEN Pair(parts[1], parts[2])
             ELSE ValueError

(***************************************************************************)
(* Repository references handed to the parser: an optional URL head, a     *)
(* path over '/', 'a', 'b', and an optional query or fragment.             *)
(***************************************************************************)
UrlHeads ==
    { <<>>,
      Http,
      <<"h", "t", "t", "p", ":", "/", "/", "h">>,
      <<"h", "t", "t", "p", "s", ":", "/", "/", "h">>,
      <<"g", "i", "t", ":", "/", "/", "h">> }

PathChars == {Slash, "a", "b"}

UrlTails == { <<>>, <<"?", "a">>, <<"#", "a">> }

ParseInputs ==
    { head \o path \o tail :
        head \in UrlHeads, path \in SeqsUpTo(PathChars, MaxPathLen), tail \in UrlTails }


(***************************************************************************)
(* JSON values as Python sees them after response.json(): tagged so that a *)
(* list, a dict and None can be told apart (isinstance).                   *)
(***************************************************************************)
JNone == [t |-> "none"]
JList(s) == [t |-> "list", v |-> s]
JDict(d) == [t |-> "dict", v |-> d]
\* a body that response.json() cannot decode
Unparsable == [t |-> "unparsable"]

IsList(x) == x.t = "list"
IsDict(x) == x.t = "dict"
\* Python truthiness of a decoded value: None, [] and {} are falsy
Truthy(x) ==
    CASE x.t = "none" -> FALSE
      [] x.t = "list" -> Len(x.v) > 0
      [] x.t = "dict" -> DOMAIN x.v # {}
      [] OTHER -> TRUE

(***************************************************************************)
(* Program constants.                                                      *)
(***************************************************************************)
\* get_contributors: per_page = 100
per_page == 100
\* get_commit_stats: retries = 3
StatsRetries == 3
\* get_commit_stats: time.sleep(5)
StatsWait == 5
\* make_request: ... + 60
RateLimitPad == 60
\* _output_console: data['contributors'][:20]
ConsoleRows == 20
\* _output_console: contrib['username'][:19]
UsernameWidth == 19

(***************************************************************************)
(* Bounds of the environment.                                              *)
(***************************************************************************)
\* the listing has at most this many pages: page MaxPages is never full
MaxPages == 3
\* longest listing that is not made of full pages
MaxListing == 3
\* size of the last, partly filled page of a long listing
LastPageSize == 37

(***************************************************************************)
(* Responses of the hosting service.  A GET either raises a                *)
(* requests.exceptions.RequestException (ConnErr) or yields a response     *)
(* with a status, a text that may contain 'rate limit', an                 *)
(* X-RateLimit-Reset header and a body.                                    *)
(***************************************************************************)
HeaderAbsent == [h |-> "absent"]
HeaderInt(n) == [h |-> "int", n |-> n]
HeaderBad == [h |-> "bad"]
ResetHeaders == {HeaderAbsent, HeaderInt(150), HeaderBad}

\* values of int(time.time())
Clock == {100, 200}

ConnErr == [kind |-> "error"]
HttpResp(status, rl, reset, body) ==
    [kind |-> "http", status |-> status, rate_limit_text |-> rl,
     reset |-> reset, body |-> body]

ErrBody == JDict([message |-> "error"])
Ok(body) == HttpResp(200, FALSE, HeaderAbsent, body)
\* a refusal that is no rate limit: 403 without 'rate limit' in the text
Forbidden == HttpResp(403, FALSE, HeaderAbsent, ErrBody)
\* a secondary rate limit answered with 429: not the 403 the code looks for
TooMany == HttpResp(429, TRUE, HeaderInt(150), ErrBody)
Throttled(h) == HttpResp(403, TRUE, h, ErrBody)

NoExc == "none"

(***************************************************************************)
(* make_request, lines 72-88.                                              *)
(***************************************************************************)
\* line 76: response.status_code == 403 and 'rate limit' in response.text.lower()
IsRateLimited(r) == r.kind = "http" /\ r.status = 403 /\ r.rate_limit_text

\* line 77: int(response.headers.get('X-RateLimit-Reset', 0)); "ValueError" when
\* int() rejects the header
ResetTime(r) ==
    CASE r.reset.h = "absent" -> [exc |-> NoExc, n |-> 0]
      [] r.reset.h = "int" -> [exc |-> NoExc, n |-> r.reset.n]
      [] OTHER -> [exc |-> "ValueError", n |-> 0]

Max(a, b) == IF a >= b THEN a ELSE b

\* a wait without the floor of max(..., 0)
WaitTimeNoFloor(reset_time, now) == reset_time - now + RateLimitPad

\* line 78: wait_time = max(reset_time - int(time.time()), 0) + 60
WaitTime(reset_time, now) == Max(reset_time - now, 0) + RateLimitPad

\* lines 83-88 on the response that ends the call: the value returned.  A
\* failed GET, raise_for_status() on a status of 400 or more, and
\* response.json() on a body that does not decode all raise a
\* requests.exceptions.RequestException, which line 86 catches.
Outcome(r) ==
    IF r.kind = "error" THEN JNone
    ELSE IF r.status >= 400 THEN JNone
    ELSE IF r.body = Unparsable THEN JNone
    ELSE r.body


(***************************************************************************)
(* Bodies the service sends per endpoint.                                  *)
(***************************************************************************)
RepoEndpoint == [kind |-> "repo"]
ContributorsEndpoint(p) == [kind |-> "contributors", page |-> p]
StatsEndpoint == [kind |-> "stats"]
UserEndpoint(login) == [kind |-> "user", login |-> login]

\* GET /repos/{owner}/{repo}
RepoBodies ==
    { JDict([full_name |-> <<"o", Slash, "r">>, description |-> "d", html_url |-> "u",
             stargazers_count |-> 7, forks_count |-> 2, language |-> "Py",
             created_at |-> "c", updated_at |-> "m"]),
      JDict(<<>>) }

\* entries of the contributor listing
Entry(login, n) == JDict([login |-> login, contributions |-> n])
Contribs == {5, 9}
La == <<"a">>
Lb == <<"b">>
\* a login of 30 characters
Lc == [i \in 1..30 |-> "c"]
Ld == <<"d">>
Lbulk == <<"b", "u", "l", "k">>
Unknown == <<"U", "n", "k", "n", "o", "w", "n">>
ListingLogins == <<La, Lb, Lc, Ld>>

\* the entries the service may put at position i of a short listing: the
\* i-th login with some contribution count, a null entry, and (first
\* position only) an entry without a login
EntriesAt(i) ==
    {Entry(ListingLogins[i], n) : n \in Contribs} \cup {JNone}
        \cup (IF i = 1 THEN {JDict([contributions |-> 5])} ELSE {})

RECURSIVE ShortListings(_)
ShortListings(n) ==
    IF n = 0 THEN {<<>>}
    ELSE LET shorter == ShortListings(n - 1)
         IN  shorter \cup
             {Append(l, e) : l \in {k \in shorter : Len(k) = n - 1}, e \in EntriesAt(n)}

\* page p of a long listing: count entries of one account kind, told apart
\* by their html_url
BulkEntry(k) == JDict([login |-> Lbulk, contributions |-> 1, html_url |-> Str(k)])
BulkPage(p, count) == [i \in 1..count |-> BulkEntry((p - 1) * per_page + i)]

\* GET /repos/{owner}/{repo}/contributors?page=p
PageBodies(p) ==
    (IF p = 1 THEN {JList(l) : l \in ShortListings(MaxListing)} ELSE {JList(<<>>)})
        \cup (IF p < MaxPages THEN {JList(BulkPage(p, per_page))} ELSE {})
        \cup (IF p > 1 THEN {JList(BulkPage(p, LastPageSize))} ELSE {})
        \cup {ErrBody}

\* GET /repos/{owner}/{repo}/stats/contributors
NotReady == JDict([message |-> "Statistics not ready"])
Week(c, a, d) == JDict([c |-> c, a |-> a, d |-> d])
Stat(login, weeks) == JDict([author |-> JDict([login |-> login]), weeks |-> weeks])

StatsBodies ==
    { NotReady,
      ErrBody,
      JList(<<>>),
      JList(<<Stat(Lb, <<Week(1, 2, 3), JNone, JDict([c |-> 2])>>),
              Stat(Lb, <<Week(4, 4, 4)>>),
              JNone,
              JDict([author |-> JNone, weeks |-> <<Week(8, 8, 8)>>]),
              JDict([author |-> JDict([login |-> Lc])]),
              Stat(Lbulk, <<Week(1, 1, 1), Week(1, 0, 2)>>)>>) }

\* GET /users/{login}
UserBodies ==
    { JDict([login |-> La, name |-> <<"A", "n", "n">>]),
      JDict([login |-> La, name |-> None]),
      JDict([login |-> La]),
      JList(<<>>) }

Bodies(endpoint) ==
    CASE endpoint.kind = "repo" -> RepoBodies
      [] endpoint.kind = "contributors" -> PageBodies(endpoint.page)
      [] endpoint.kind = "stats" -> StatsBodies
      [] OTHER -> UserBodies

Responses(endpoint) ==
    {ConnErr, Forbidden, TooMany}
        \cup {Throttled(h) : h \in ResetHeaders}
        \cup {Ok(b) : b \in Bodies(endpoint) \cup {Unparsable}}

Unset == [kind |-> "unset"]


(***************************************************************************)
(* State.                                                                  *)
(***************************************************************************)
VARIABLES
    pc,                \* position in parse_repo_url / generate_report
    repo_url,          \* the argument of the running call
    parsed,            \* what parse_repo_url returned or raised
    repo_info,         \* generate_report: repo_info
    contributors,      \* get_contributors / generate_report: contributors
    page,              \* get_contributors: page
    pageLog,           \* get_contributors: what make_request returned, per page
    data,              \* get_commit_stats: data
    retries,           \* get_commit_stats: retries
    statsLog,          \* get_commit_stats: its requests and sleeps, in order
    commit_stats,      \* generate_report: commit_stats
    idx,               \* generate_report: position of the merge loop
    contribution_data, \* generate_report: contribution_data
    report_data,       \* generate_report: report_data
    output,            \* what the run printed or wrote
    mrpc,              \* make_request: position
    mrEndpoint,        \* make_request: endpoint
    mrLog,             \* make_request: the responses to its GETs, in order
    mrSleeps,          \* make_request: its sleeps, clock reading and duration
    mrResult,          \* make_request: returned value
    mrRaised,          \* make_request: exception that left it
    bulkProfile,       \* service: its answer for the profile of Lbulk, once given
    requested          \* service: kinds of endpoint requested so far

vars ==
    <<pc, repo_url, parsed, repo_info, contributors, page, pageLog, data, retries,
      statsLog, commit_stats, idx, contribution_data, report_data, output,
      mrpc, mrEndpoint, mrLog, mrSleeps, mrResult, mrRaised, bulkProfile, requested>>

mrVars == <<mrpc, mrEndpoint, mrLog, mrSleeps, mrResult, mrRaised>>
listerVars == <<contributors, page, pageLog>>
statsVars == <<data, retries, statsLog, commit_stats>>
mergeVars == <<idx, contribution_data, report_data>>
envVars == <<bulkProfile, requested>>

\* nothing printed but progress lines, no file, no console report
NoFile == [kind |-> "none"]
NoOutput == [message |-> "", exc |-> NoExc, file |-> NoFile, header |-> FALSE, table |-> <<>>]

Init ==
    /\ pc = "idle"
    /\ repo_url = <<>>
    /\ parsed = JNone
    /\ repo_info = JNone
    /\ contributors = <<>>
    /\ page = 0
    /\ pageLog = <<>>
    /\ data = JNone
    /\ retries = 0
    /\ statsLog = <<>>
    /\ commit_stats = JNone
    /\ idx = 0
    /\ contribution_data = <<>>
    /\ report_data = JNone
    /\ output = NoOutput
    /\ mrpc = "idle"
    /\ mrEndpoint = RepoEndpoint
    /\ mrLog = <<>>
    /\ mrSleeps = <<>>
    /\ mrResult = JNone
    /\ mrRaised = NoExc
    /\ bulkProfile = Unset
    /\ requested = {}

(***************************************************************************)
(* make_request as a sequence of steps: the first GET, the sleep, the      *)
(* second GET.  The caller starts it with Call and goes on when mrpc is    *)
(* "ret".                                                                  *)
(***************************************************************************)
Call(endpoint) ==
    /\ mrpc' = "get1"
    /\ mrEndpoint' = endpoint
    /\ mrLog' = <<>>
    /\ mrSleeps' = <<>>
    /\ mrResult' = JNone
    /\ mrRaised' = NoExc

Returned == mrpc = "ret"

\* the caller has taken the result: the frame of the call is gone
Consume ==
    /\ mrpc' = "idle"
    /\ mrEndpoint' = RepoEndpoint
    /\ mrLog' = <<>>
    /\ mrSleeps' = <<>>
    /\ mrResult' = JNone
    /\ mrRaised' = NoExc

\* The service answers the profile requests for the account of the long
\* listings the same way each time: with a profile of the display name it sent
\* first, or with a refusal when the first request got no profile.
Replay(r) ==
    IF r.kind = "http" /\ r.status < 400 /\ IsDict(r.body) /\ Truthy(r.body)
    THEN Ok(JDict([login |-> Lbulk, name |-> Get(r.body.v, "name", None)]))
    ELSE Forbidden

Offered(endpoint) ==
    IF endpoint = UserEndpoint(Lbulk) /\ bulkProfile # Unset
    THEN {bulkProfile}
    ELSE Responses(endpoint)

Remember(r) ==
    bulkProfile' = IF mrEndpoint = UserEndpoint(Lbulk) THEN Replay(r) ELSE bulkProfile

\* lines 83-88 applied to response r
Finish(r) ==
    /\ mrpc' = "ret"
    /\ mrResult' = Outcome(r)
    /\ mrRaised' = NoExc
    /\ Remember(r)

\* lines 73-77: the first GET; a rate-limit response leads to the sleep unless
\* its reset header makes int() raise
MRFirstGet ==
    /\ mrpc = "get1"
    /\ \E r \in Offered(mrEndpoint) :
        /\ mrLog' = Append(mrLog, r)
        /\ requested' = requested \cup {mrEndpoint.kind}
        /\ IF IsRateLimited(r)
           THEN /\ UNCHANGED <<mrResult, bulkProfile>>
                /\ IF ResetTime(r).exc # NoExc
                   THEN mrpc' = "ret" /\ mrRaised' = ResetTime(r).exc
                   ELSE mrpc' = "sleep" /\ UNCHANGED mrRaised
           ELSE Finish(r)
    /\ UNCHANGED <<mrEndpoint, mrSleeps>>
    /\ UNCHANGED <<pc, repo_url, parsed, repo_info, listerVars, statsVars, mergeVars, output>>

\* lines 78-79: the reading of the clock and the duration of the sleep
Slept(now, secs) == [now |-> now, secs |-> secs]

\* lines 78-80: compute the wait from the clock and sleep
MRSleep ==
    /\ mrpc = "sleep"
    /\ \E now \in Clock :
        mrSleeps' = Append(mrSleeps,
                           Slept(now, WaitTime(ResetTime(mrLog[Len(mrLog)]).n, now)))
    /\ mrpc' = "get2"
    /\ UNCHANGED <<mrEndpoint, mrLog, mrResult, mrRaised, envVars>>
    /\ UNCHANGED <<pc, repo_url, parsed, repo_info, listerVars, statsVars, mergeVars, output>>

\* a second GET that treats a rate-limit response like the first one does
MRSecondGetRetrying ==
    /\ mrpc = "get2"
    /\ \E r \in Responses(mrEndpoint) :
        /\ mrLog' = Append(mrLog, r)
        /\ IF IsRateLimited(r) /\ ResetTime(r).exc = NoExc
           THEN mrpc' = "sleep" /\ UNCHANGED <<mrResult, mrRaised, bulkProfile>>
           ELSE Finish(r)
    /\ UNCHANGED <<mrEndpoint, mrSleeps, requested>>
    /\ UNCHANGED <<pc, repo_url, parsed, repo_info, listerVars, statsVars, mergeVars, output>>

\* line 81 and lines 83-88: the second GET ends the call whatever it yields
MRSecondGet ==
    /\ mrpc = "get2"
    /\ \E r \in Responses(mrEndpoint) :
        /\ mrLog' = Append(mrLog, r)
        /\ Finish(r)
    /\ UNCHANGED <<mrEndpoint, mrSleeps, requested>>
    /\ UNCHANGED <<pc, repo_url, parsed, repo_info, listerVars, statsVars, mergeVars, output>>


(***************************************************************************)
(* parse_repo_url called on its own.                                       *)
(***************************************************************************)
ParseCall ==
    /\ pc = "idle"
    /\ \E u \in ParseInputs :
        /\ repo_url' = u
        /\ parsed' = parse_repo_url(u)
    /\ pc' = "parsed"
    /\ UNCHANGED <<repo_info, listerVars, statsVars, mergeVars, output, mrVars, envVars>>

(***************************************************************************)
(* generate_report, lines 184-268.                                         *)
(***************************************************************************)
AB == <<"a", Slash, "b">>

\* arguments of generate_report: every reference the parser rejects, and one
\* it accepts
ReportInputs == {u \in ParseInputs : parse_repo_url(u) = ValueError} \cup {AB}

\* lines 267-268: except Exception as e: print(...)
Fail(exc) ==
    /\ pc' = "done"
    /\ output' = [output EXCEPT !.message = "Error generating report", !.exc = exc]

\* an early exit of generate_report with a printed message
Stop(message) ==
    /\ pc' = "done"
    /\ output' = [output EXCEPT !.message = message]

\* a generate_report that asks for the repository whatever the parser says
GenerateReportUnchecked ==
    /\ pc = "idle"
    /\ \E u \in ReportInputs :
        /\ repo_url' = u
        /\ parsed' = IF parse_repo_url(u) = ValueError THEN Pair(u, EmptyStr)
                     ELSE parse_repo_url(u)
        /\ pc' = "repo_info"
        /\ Call(RepoEndpoint)
        /\ UNCHANGED output
    /\ UNCHANGED <<repo_info, listerVars, statsVars, mergeVars, envVars>>

\* lines 185-189: parse, then ask for the repository
GenerateReport ==
    /\ pc = "idle"
    /\ \E u \in ReportInputs :
        /\ repo_url' = u
        /\ IF parse_repo_url(u) = ValueError
           THEN /\ Fail("ValueError")
                /\ UNCHANGED <<parsed, mrVars>>
           ELSE /\ parsed' = parse_repo_url(u)
                /\ pc' = "repo_info"
                /\ Call(RepoEndpoint)
                /\ UNCHANGED output
    /\ UNCHANGED <<repo_info, listerVars, statsVars, mergeVars, envVars>>

\* lines 189-195 and 103-115: repo_info arrives; start get_contributors
GotRepoInfo ==
    /\ pc = "repo_info" /\ Returned
    /\ IF mrRaised # NoExc
       THEN Fail(mrRaised) /\ Consume /\ UNCHANGED <<repo_info, listerVars>>
       ELSE IF ~Truthy(mrResult)
       THEN /\ Stop("Failed to fetch repository information")
            /\ Consume
            /\ UNCHANGED <<repo_info, listerVars>>
       ELSE /\ repo_info' = mrResult
            /\ contributors' = <<>>
            /\ page' = 1
            /\ pageLog' = <<>>
            /\ pc' = "contributors"
            /\ Call(ContributorsEndpoint(1))
            /\ UNCHANGED output
    /\ UNCHANGED <<repo_url, parsed, statsVars, mergeVars, envVars>>

\* lines 116-120: the loop ends without taking anything from this page
NoPage(d) == ~Truthy(d) \/ ~IsList(d) \/ Len(d.v) = 0

\* a test with <= : a full page would end the listing too
ShortPageInclusive(d) == Len(d.v) <= per_page

\* line 124: a page shorter than per_page is the last one
ShortPage(d) == Len(d.v) < per_page

\* lines 115-128: one turn of the loop of get_contributors on the value
\* make_request returned
ContributorsPage ==
    /\ pc = "contributors" /\ Returned
    /\ IF mrRaised # NoExc
       THEN Fail(mrRaised) /\ Consume /\ UNCHANGED listerVars
       ELSE /\ pageLog' = Append(pageLog, mrResult)
            /\ UNCHANGED output
            /\ IF NoPage(mrResult)
               THEN /\ pc' = "contributors_ret"
                    /\ Consume
                    /\ UNCHANGED <<contributors, page>>
               ELSE /\ contributors' = contributors \o mrResult.v
                    /\ IF ShortPage(mrResult)
                       THEN /\ pc' = "contributors_ret"
                            /\ Consume
                            /\ UNCHANGED page
                       ELSE /\ page' = page + 1
                            /\ pc' = "contributors"
                            /\ Call(ContributorsEndpoint(page + 1))
    /\ UNCHANGED <<repo_url, parsed, repo_info, statsVars, mergeVars, envVars>>

\* what get_commit_stats does and gets, in order
StatsRequest == [ev |-> "request"]
StatsSleep(secs) == [ev |-> "sleep", secs |-> secs]
StatsAnswer(d) == [ev |-> "answer", data |-> d]

\* a generate_report that goes on to the statistics with an empty listing
GotContributorsAnyway ==
    /\ pc = "contributors_ret"
    /\ page' = 0
    /\ pageLog' = <<>>
    /\ pc' = "stats"
    /\ statsLog' = <<StatsRequest>>
    /\ Call(StatsEndpoint)
    /\ UNCHANGED output
    /\ UNCHANGED <<repo_url, parsed, repo_info, contributors, data, retries, commit_stats,
                   mergeVars, envVars>>

\* lines 195-201 and 145-146: get_contributors has returned (its frame is
\* gone); start get_commit_stats
GotContributors ==
    /\ pc = "contributors_ret"
    /\ page' = 0
    /\ pageLog' = <<>>
    /\ IF Len(contributors) = 0
       THEN /\ Stop("No contributors found or failed to fetch contributor data")
            /\ UNCHANGED <<mrVars, statsLog>>
       ELSE /\ pc' = "stats"
            /\ statsLog' = <<StatsRequest>>
            /\ Call(StatsEndpoint)
            /\ UNCHANGED output
    /\ UNCHANGED <<repo_url, parsed, repo_info, contributors, data, retries, commit_stats,
                   mergeVars, envVars>>

EmptyDict == JDict(<<>>)

\* lines 146-152: the first answer of the statistics endpoint
StatsFirst ==
    /\ pc = "stats" /\ Returned
    /\ Consume
    /\ IF mrRaised # NoExc
       THEN Fail(mrRaised) /\ UNCHANGED <<data, retries, commit_stats, statsLog>>
       ELSE /\ data' = mrResult
            /\ statsLog' = Append(statsLog, StatsAnswer(mrResult))
            /\ UNCHANGED output
            /\ IF ~Truthy(mrResult)
               THEN /\ commit_stats' = EmptyDict
                    /\ pc' = "stats_ret"
                    /\ UNCHANGED retries
               ELSE /\ retries' = StatsRetries
                    /\ pc' = "stats_loop"
                    /\ UNCHANGED commit_stats
    /\ UNCHANGED <<repo_url, parsed, repo_info, listerVars, mergeVars, envVars>>

\* a polling loop that tests the budget with >= 0: one retry too many
StillComputingOneMore(d, left) ==
    /\ IsDict(d)
    /\ "message" \in DOMAIN d.v
    /\ d.v.message = "Statistics not ready"
    /\ left >= 0

\* a polling loop that tests the budget with > 1: one retry too few
StillComputingOneLess(d, left) ==
    /\ IsDict(d)
    /\ "message" \in DOMAIN d.v
    /\ d.v.message = "Statistics not ready"
    /\ left > 1

\* line 153: the condition of the polling loop
StillComputing(d, left) ==
    /\ IsDict(d)
    /\ "message" \in DOMAIN d.v
    /\ d.v.message = "Statistics not ready"
    /\ left > 0

\* lines 153-156 and 159: test the loop condition; sleep and ask again, or
\* return
StatsLoop ==
    /\ pc = "stats_loop"
    /\ IF StillComputing(data, retries)
       THEN /\ statsLog' = statsLog \o <<StatsSleep(StatsWait), StatsRequest>>
            /\ Call(StatsEndpoint)
            /\ pc' = "stats_retry"
            /\ UNCHANGED commit_stats
       ELSE /\ commit_stats' = (IF IsList(data) THEN data ELSE JList(<<>>))
            /\ pc' = "stats_ret"
            /\ UNCHANGED <<mrVars, statsLog>>
    /\ UNCHANGED <<repo_url, parsed, repo_info, listerVars, data, retries,
                   mergeVars, output, envVars>>

\* lines 156-157: the answer to a retry
StatsRetry ==
    /\ pc = "stats_retry" /\ Returned
    /\ Consume
    /\ IF mrRaised # NoExc
       THEN Fail(mrRaised) /\ UNCHANGED <<data, retries, statsLog>>
       ELSE /\ data' = mrResult
            /\ statsLog' = Append(statsLog, StatsAnswer(mrResult))
            /\ retries' = retries - 1
            /\ pc' = "stats_loop"
            /\ UNCHANGED output
    /\ UNCHANGED <<repo_url, parsed, repo_info, listerVars, commit_stats,
                   mergeVars, envVars>>


\* lines 201-205: get_commit_stats has returned (its frame is gone); the
\* merge loop starts
GotStats ==
    /\ pc = "stats_ret"
    /\ data' = JNone
    /\ retries' = 0
    /\ statsLog' = <<>>
    /\ idx' = 1
    /\ pc' = "merge"
    /\ UNCHANGED <<repo_url, parsed, repo_info, listerVars, commit_stats,
                   contribution_data, report_data, output, mrVars, envVars>>

(***************************************************************************)
(* The merge, lines 204-234.                                               *)
(***************************************************************************)
\* line 228: the statistics entry is the one of username
Matches(stat, username) ==
    /\ Truthy(stat)
    /\ IsDict(stat)
    /\ Truthy(Get(stat.v, "author", EmptyDict))
    /\ IsDict(Get(stat.v, "author", EmptyDict))
    /\ Get(Get(stat.v, "author", EmptyDict).v, "login", None) = username

\* for stat in commit_stats: an empty dict yields nothing
StatsItems(cs) == IF IsList(cs) THEN cs.v ELSE <<>>

\* a loop without the break: the last entry that matches, 0 when no entry does
RECURSIVE LastMatch(_, _, _)
LastMatch(items, username, i) ==
    IF i > Len(items) THEN 0
    ELSE LET later == LastMatch(items, username, i + 1)
         IN  IF later # 0 THEN later
             ELSE IF Matches(items[i], username) THEN i
             ELSE 0

\* lines 227-232: the loop stops at the first entry that matches; 0 when no
\* entry does
RECURSIVE FirstMatch(_, _, _)
FirstMatch(items, username, i) ==
    IF i > Len(items) THEN 0
    ELSE IF Matches(items[i], username) THEN i
    ELSE FirstMatch(items, username, i + 1)

\* a sum that ends at the first null bucket
RECURSIVE SumWeeksUntilNull(_, _)
SumWeeksUntilNull(weeks, key) ==
    IF weeks = <<>> \/ ~Truthy(Head(weeks)) THEN 0
    ELSE Get(Head(weeks).v, key, 0) + SumWeeksUntilNull(Tail(weeks), key)

\* lines 229-231: sum(week.get(key, 0) for week in stat.get('weeks', []) if week)
RECURSIVE SumWeeks(_, _)
SumWeeks(weeks, key) ==
    IF weeks = <<>> THEN 0
    ELSE (IF Truthy(Head(weeks)) THEN Get(Head(weeks).v, key, 0) ELSE 0)
            + SumWeeks(Tail(weeks), key)

\* line 212: the display name taken from the profile
FullName(user_info) ==
    IF Truthy(user_info) /\ IsDict(user_info)
    THEN Get(user_info.v, "name", None)
    ELSE EmptyStr

\* lines 208-232: the record of one contributor
ContribData(contributor, user_info, cs) ==
    LET username == Get(contributor.v, "login", Unknown)
        m == FirstMatch(StatsItems(cs), username, 1)
        weeks == IF m = 0 THEN <<>> ELSE Get(StatsItems(cs)[m].v, "weeks", <<>>)
    IN  [username |-> username,
         name |-> FullName(user_info),
         contributions |-> Get(contributor.v, "contributions", 0),
         profile_url |-> Get(contributor.v, "html_url", EmptyStr),
         avatar_url |-> Get(contributor.v, "avatar_url", EmptyStr),
         type |-> Get(contributor.v, "type", "User"),
         total_commits |-> SumWeeks(weeks, "c"),
         additions |-> SumWeeks(weeks, "a"),
         deletions |-> SumWeeks(weeks, "d")]

\* line 237: contribution_data.sort(key=..., reverse=True), a stable sort:
\* each record goes behind the records whose count is at least its own
\* a sort that puts a record in front of the records with the same count
RECURSIVE CountGreater(_, _, _)
CountGreater(s, n, i) ==
    IF i > Len(s) \/ s[i].contributions <= n THEN i - 1
    ELSE CountGreater(s, n, i + 1)

RECURSIVE CountAtLeast(_, _, _)
CountAtLeast(s, n, i) ==
    IF i > Len(s) \/ s[i].contributions < n THEN i - 1
    ELSE CountAtLeast(s, n, i + 1)

InsertDesc(s, x) ==
    LET k == CountAtLeast(s, x.contributions, 1)
    IN  SubSeq(s, 1, k) \o <<x>> \o SubSeq(s, k + 1, Len(s))

RECURSIVE SortPrefix(_, _)
SortPrefix(s, n) == IF n = 0 THEN <<>> ELSE InsertDesc(SortPrefix(s, n - 1), s[n])

SortByContributions(s) == SortPrefix(s, Len(s))

RECURSIVE SumContributions(_, _)
SumContributions(s, n) ==
    IF n = 0 THEN 0 ELSE s[n].contributions + SumContributions(s, n - 1)

\* lines 240-257 (the time stamp of the summary is left out)
Report(info, owner, repo, records) ==
    [repository |->
        [name |-> Get(info.v, "full_name", owner \o <<Slash>> \o repo),
         description |-> Get(info.v, "description", ""),
         url |-> Get(info.v, "html_url", ""),
         stars |-> Get(info.v, "stargazers_count", 0),
         forks |-> Get(info.v, "forks_count", 0),
         language |-> Get(info.v, "language", "Unknown"),
         created_at |-> Get(info.v, "created_at", ""),
         updated_at |-> Get(info.v, "updated_at", "")],
     summary |->
        [total_contributors |-> Len(records),
         total_contributions |-> SumContributions(records, Len(records))],
     contributors |-> records]

\* a merge loop that also skips an entry that has no login
MergeNextSkippingUnnamed ==
    /\ pc = "merge"
    /\ IF idx > Len(contributors)
       THEN /\ contribution_data' = SortByContributions(contribution_data)
            /\ report_data' = Report(repo_info, parsed.owner, parsed.name,
                                     SortByContributions(contribution_data))
            /\ pc' = "output"
            /\ UNCHANGED <<idx, mrVars>>
       ELSE IF contributors[idx] = JNone \/ "login" \notin DOMAIN contributors[idx].v
       THEN /\ idx' = idx + 1
            /\ UNCHANGED <<pc, contribution_data, report_data, mrVars>>
       ELSE /\ Call(UserEndpoint(Get(contributors[idx].v, "login", Unknown)))
            /\ pc' = "merge_user"
            /\ UNCHANGED <<idx, contribution_data, report_data>>
    /\ UNCHANGED <<repo_url, parsed, repo_info, listerVars, statsVars, output, envVars>>

\* lines 205-211 and 236-257: the head of the merge loop; after the last
\* contributor, the sort and the report
MergeNext ==
    /\ pc = "merge"
    /\ IF idx > Len(contributors)
       THEN /\ contribution_data' = SortByContributions(contribution_data)
            /\ report_data' = Report(repo_info, parsed.owner, parsed.name,
                                     SortByContributions(contribution_data))
            /\ pc' = "output"
            /\ UNCHANGED <<idx, mrVars>>
       ELSE IF contributors[idx] = JNone
       THEN /\ idx' = idx + 1
            /\ UNCHANGED <<pc, contribution_data, report_data, mrVars>>
       ELSE /\ Call(UserEndpoint(Get(contributors[idx].v, "login", Unknown)))
            /\ pc' = "merge_user"
            /\ UNCHANGED <<idx, contribution_data, report_data>>
    /\ UNCHANGED <<repo_url, parsed, repo_info, listerVars, statsVars, output, envVars>>

\* lines 211-234: the profile arrives; build and append the record
MergeUser ==
    /\ pc = "merge_user" /\ Returned
    /\ Consume
    /\ IF mrRaised # NoExc
       THEN Fail(mrRaised) /\ UNCHANGED <<idx, contribution_data>>
       ELSE /\ contribution_data' =
                Append(contribution_data,
                       ContribData(contributors[idx], mrResult, commit_stats))
            /\ idx' = idx + 1
            /\ pc' = "merge"
            /\ UNCHANGED output
    /\ UNCHANGED <<repo_url, parsed, repo_info, listerVars, statsVars, report_data, envVars>>


(***************************************************************************)
(* The serializers, lines 259-331.                                         *)
(***************************************************************************)
Formats == {"json", "csv", "console"}

\* csv.writer writes None as the empty string and a string as it is
CsvText(x) == IF x = None THEN EmptyStr ELSE x

\* lines 294-303: the row of one contributor; every key is present in a
\* record built by the merge, so the defaults of .get never apply
CsvRow(c) ==
    [Username |-> CsvText(c.username),
     Name |-> CsvText(c.name),
     Contributions |-> Str(c.contributions),
     TotalCommits |-> Str(c.total_commits),
     Additions |-> Str(c.additions),
     Deletions |-> Str(c.deletions),
     ProfileURL |-> CsvText(c.profile_url),
     Type |-> c.type]

\* _output_console: contrib.get('name', '')[:24]
NameWidth == 24

\* s[:n]
Take(s, n) == SubSeq(s, 1, IF Len(s) < n THEN Len(s) ELSE n)

JsonFile(report) == [kind |-> "json", data |-> report]

\* lines 287-303: the header row is the field names of the rows
CsvFile(report) ==
    [kind |-> "csv",
     rows |-> [i \in 1..Len(report.contributors) |-> CsvRow(report.contributors[i])]]

\* lines 330-331: one line of the table
ConsoleRow(i, c) ==
    [rank |-> i,
     username |-> Take(c.username, UsernameWidth),
     name |-> Take(c.name, NameWidth),
     contributions |-> c.contributions,
     type |-> c.type]

\* line 329: data['contributors'][:20]
Shown(records) == Take(records, ConsoleRows)

\* the lines of the table printed before None[:24] raises TypeError
RECURSIVE Printable(_, _)
Printable(records, i) ==
    IF i > Len(records) \/ records[i].name = None THEN i - 1
    ELSE Printable(records, i + 1)

Console(report) ==
    LET shown == Shown(report.contributors)
        k == Printable(shown, 1)
    IN  [message |-> IF k < Len(shown) THEN "Error generating report" ELSE "",
         exc |-> IF k < Len(shown) THEN "TypeError" ELSE NoExc,
         file |-> NoFile,
         header |-> TRUE,
         table |-> [i \in 1..k |-> ConsoleRow(i, shown[i])]]

\* lines 259-265: write the report in the format asked for
Output ==
    /\ pc = "output"
    /\ \E fmt \in Formats :
        output' =
            CASE fmt = "json" ->
                    [output EXCEPT !.file = JsonFile(report_data), !.message = "Report saved"]
              [] fmt = "csv" ->
                    [output EXCEPT !.file = CsvFile(report_data), !.message = "Report saved"]
              [] OTHER -> Console(report_data)
    /\ pc' = "done"
    /\ UNCHANGED <<repo_url, parsed, repo_info, listerVars, statsVars, mergeVars,
                   mrVars, envVars>>

(***************************************************************************)
(* Specifications.                                                         *)
(***************************************************************************)
\* one run of generate_report
Next ==
    \/ GenerateReport
    \/ MRFirstGet
    \/ MRSleep
    \/ MRSecondGet
    \/ GotRepoInfo
    \/ ContributorsPage
    \/ GotContributors
    \/ StatsFirst
    \/ StatsLoop
    \/ StatsRetry
    \/ GotStats
    \/ MergeNext
    \/ MergeUser
    \/ Output

Spec == Init /\ [][Next]_vars

\* one call of parse_repo_url
NextParse == ParseCall

SpecParse == Init /\ [][NextParse]_vars


(***************************************************************************)
(* Properties of parse_repo_url (checked under SpecParse).                 *)
(***************************************************************************)
\* a segment that can name an owner or a repository
IsName(s) == s # <<>> /\ \A i \in 1..Len(s) : s[i] \in Letters

\* the reference has a 'scheme://' part
SchemeEnd(u) ==
    LET i == FindAny(u, {":"}, 1)
    IN  IF i > 1 /\ Len(u) >= i + 2 /\ u[i + 1] = Slash /\ u[i + 2] = Slash
           /\ IsName(SubSeq(u, 1, i - 1))
        THEN i + 2
        ELSE 0

\* the path segments behind 'scheme://host/', up to a query or fragment
UrlSegments(u) ==
    LET afterScheme == Tail_From(u, SchemeEnd(u) + 1)
        j == FindAny(afterScheme, {Slash}, 1)
        afterHost == IF j = 0 THEN <<>> ELSE Tail_From(afterScheme, j + 1)
        e == FindAny(afterHost, {"?", "#"}, 1)
    IN  Split(IF e = 0 THEN afterHost ELSE SubSeq(afterHost, 1, e - 1), Slash)

\* 'scheme://host/owner/name[...]'
IsUrlForm(u) ==
    /\ SchemeEnd(u) > 0
    /\ Len(UrlSegments(u)) >= 2
    /\ IsName(UrlSegments(u)[1])
    /\ IsName(UrlSegments(u)[2])

\* bare segments: no 'scheme://' part
BareSegments(u) == IF SchemeEnd(u) = 0 THEN Split(u, Slash) ELSE <<>>

\* 'owner/name'
IsShorthand(u) ==
    /\ Len(BareSegments(u)) = 2
    /\ IsName(BareSegments(u)[1])
    /\ IsName(BareSegments(u)[2])

\* C8: the shorthand 'owner/name' and every URL form
\* 'scheme://host/owner/name[...]' of a repository parse to the same pair
\* (owner, name), and the empty string, a single segment and three or more
\* bare segments raise ValueError.
C8_SameRepository ==
    pc = "parsed" =>
        /\ IsShorthand(repo_url) =>
              parsed = Pair(BareSegments(repo_url)[1], BareSegments(repo_url)[2])
        /\ IsUrlForm(repo_url) =>
              parsed = Pair(UrlSegments(repo_url)[1], UrlSegments(repo_url)[2])
        /\ (SchemeEnd(repo_url) = 0 /\ Len(BareSegments(repo_url)) # 2) =>
              parsed = ValueError

\* C9: whenever parse_repo_url returns a pair, owner and name are both
\* non-empty.
C9_NonEmptyPair ==
    (pc = "parsed" /\ parsed.kind = "pair") =>
        (parsed.owner # <<>> /\ parsed.name # <<>>)


(***************************************************************************)
(* Properties of make_request.                                             *)
(***************************************************************************)
\* HTTP 403 whose body signals a rate limit
RateLimitResponse(r) == r.kind = "http" /\ r.status = 403 /\ r.rate_limit_text

\* a 2xx response whose body decodes
SuccessResponse(r) ==
    r.kind = "http" /\ r.status >= 200 /\ r.status < 300 /\ r.body # Unparsable

\* C1: a call of make_request issues at most two GETs and sleeps at most
\* once; a rate-limit response followed by a decodable 2xx response makes it
\* return the decoded body after exactly one sleep; two rate-limit responses
\* in a row make it return None, and no third GET is issued.
C1_RateLimitRetry ==
    /\ Len(mrLog) <= 2
    /\ Len(mrSleeps) <= 1
    /\ (Returned /\ Len(mrLog) = 2) =>
          /\ RateLimitResponse(mrLog[1])
          /\ Len(mrSleeps) = 1
          /\ SuccessResponse(mrLog[2]) => (mrResult = mrLog[2].body /\ mrRaised = NoExc)
          /\ RateLimitResponse(mrLog[2]) => (mrResult = JNone /\ mrRaised = NoExc)
    /\ (Returned /\ Len(mrLog) = 1 /\ RateLimitResponse(mrLog[1])) => mrRaised # NoExc

\* a call that was throttled once and then answered has returned the body
C1_Witness ==
    /\ Returned
    /\ Len(mrLog) = 2
    /\ RateLimitResponse(mrLog[1])
    /\ SuccessResponse(mrLog[2])
    /\ Truthy(mrResult)
    /\ Len(mrSleeps) = 1
    /\ mrSleeps[1].secs = RateLimitPad

\* C10: make_request never lets an exception reach its caller; every failing
\* request ends with the return value None.
C10_NeverRaises == Returned => mrRaised = NoExc


(***************************************************************************)
(* Properties of get_commit_stats.                                         *)
(***************************************************************************)
RECURSIVE CountRequests(_, _)
CountRequests(log, n) ==
    IF n = 0 THEN 0
    ELSE (IF log[n].ev = "request" THEN 1 ELSE 0) + CountRequests(log, n - 1)

\* calls of make_request on the statistics endpoint made so far
Attempts == CountRequests(statsLog, Len(statsLog))

\* the 'Statistics not ready' sentinel
IsSentinel(d) ==
    d.t = "dict" /\ "message" \in DOMAIN d.v /\ d.v.message = "Statistics not ready"

\* every answer of the statistics endpoint so far was the sentinel
AllNotReady ==
    \A k \in 1..Len(statsLog) : statsLog[k].ev = "answer" => IsSentinel(statsLog[k].data)

\* C2 as stated: when every answer is the sentinel, get_commit_stats makes
\* at most 3 attempts in total, the first request included.
C2_ThreeAttempts == AllNotReady => Attempts <= 3

\* C2 as amended: get_commit_stats makes at most 4 attempts in total, the
\* first request and at most 3 retries; when every answer is the sentinel it
\* gives up after exactly 4.
C2_FourAttempts ==
    /\ Attempts <= 4
    /\ (pc = "stats_ret" /\ AllNotReady) => Attempts = 4

\* the endpoint never got ready and get_commit_stats has given up
C2_Witness == pc = "stats_ret" /\ AllNotReady /\ Attempts = 4 /\ retries = 0

\* C3: every retry follows a sentinel answer and one wait of 5 seconds, so
\* polling stops at the first answer that is not the sentinel; when every
\* answer is the sentinel there are exactly 3 retries and the result is
\* empty; once get_commit_stats has returned the endpoint is not called
\* again.
C3_PollingStops ==
    /\ \A k \in 1..Len(statsLog) :
          /\ (statsLog[k].ev = "request" /\ k > 1) =>
                /\ k >= 4
                /\ statsLog[k - 1] = [ev |-> "sleep", secs |-> 5]
                /\ statsLog[k - 2].ev = "answer"
                /\ IsSentinel(statsLog[k - 2].data)
          /\ statsLog[k].ev = "sleep" =>
                (k < Len(statsLog) /\ statsLog[k + 1].ev = "request")
    /\ (pc = "stats_ret" /\ AllNotReady) =>
          (Attempts - 1 = 3 /\ Len(StatsItems(commit_stats)) = 0)
    /\ pc \in {"stats_ret", "merge", "merge_user", "output", "done"} =>
          (mrpc = "idle" \/ mrEndpoint.kind # "stats")

\* three retries, each after a wait, all answered by the sentinel
C3_Witness ==
    /\ pc = "stats_ret"
    /\ statsLog =
         << [ev |-> "request"], [ev |-> "answer", data |-> NotReady],
            [ev |-> "sleep", secs |-> 5], [ev |-> "request"],
            [ev |-> "answer", data |-> NotReady],
            [ev |-> "sleep", secs |-> 5], [ev |-> "request"],
            [ev |-> "answer", data |-> NotReady],
            [ev |-> "sleep", secs |-> 5], [ev |-> "request"],
            [ev |-> "answer", data |-> NotReady] >>
    /\ commit_stats = JList(<<>>)


(***************************************************************************)
(* Properties of get_contributors.                                         *)
(***************************************************************************)
\* the entries of a page as make_request returned it: a failed request or a
\* body that is no list has none
PageEntries(d) == IF d.t = "list" THEN d.v ELSE <<>>

RECURSIVE Flatten(_, _)
Flatten(log, n) == IF n = 0 THEN <<>> ELSE Flatten(log, n - 1) \o PageEntries(log[n])

PageSizes == [k \in 1..Len(pageLog) |-> Len(PageEntries(pageLog[k]))]

\* C4: get_contributors requests the pages 1, 2, 3, ... in order, goes on
\* only after a page of at least 100 entries, stops at the first page of
\* fewer than 100 (or no) entries, returns the concatenation of all the pages
\* it got, and requests no page after the one it stopped at.
C4_Pagination ==
    /\ pc = "contributors" =>
          /\ page = Len(pageLog) + 1
          /\ mrpc # "idle"
          /\ mrEndpoint = [kind |-> "contributors", page |-> Len(pageLog) + 1]
          /\ \A k \in 1..Len(pageLog) : PageSizes[k] >= 100
          /\ contributors = Flatten(pageLog, Len(pageLog))
    /\ pc = "contributors_ret" =>
          /\ Len(pageLog) >= 1
          /\ page = Len(pageLog)
          /\ \A k \in 1..(Len(pageLog) - 1) : PageSizes[k] >= 100
          /\ PageSizes[Len(pageLog)] < 100
          /\ contributors = Flatten(pageLog, Len(pageLog))
    /\ pc # "contributors" => (mrpc = "idle" \/ mrEndpoint.kind # "contributors")

\* pages of 100, 100 and 37 entries: 237 entries after three requests
C4_Witness ==
    /\ pc = "contributors_ret"
    /\ PageSizes = <<100, 100, 37>>
    /\ page = 3
    /\ Len(contributors) = 237

\* the request for page k >= 2 has failed: make_request returned None or
\* raised
PageRequestFailed ==
    /\ pc = "contributors"
    /\ Returned
    /\ page >= 2
    /\ (mrRaised # NoExc \/ mrResult = JNone)

\* C5: when the request for page k >= 2 fails after k-1 full pages,
\* get_contributors returns the entries of the pages 1..k-1 without asking
\* for another page, and generate_report goes on with them instead of
\* failing.
C5_FailedPageKeepsEntries ==
    [][PageRequestFailed =>
          /\ pc' = "contributors_ret"
          /\ contributors' = contributors
          /\ Len(contributors) = (page - 1) * 100
          /\ mrpc' = "idle"]_vars

(***************************************************************************)
(* Properties of the merge and the sort.                                   *)
(***************************************************************************)
NotNull(e) == e.t # "none"

\* the entries of the listing that are not null, in listing order
Entries == SelectSeq(contributors, NotNull)

\* the record r is the record of the entry e
RecordOf(r, e) ==
    /\ r.username = (IF "login" \in DOMAIN e.v THEN e.v.login ELSE Unknown)
    /\ r.contributions = (IF "contributions" \in DOMAIN e.v THEN e.v.contributions ELSE 0)
    /\ r.profile_url = (IF "html_url" \in DOMAIN e.v THEN e.v.html_url ELSE <<>>)

\* the statistics hold an entry whose author has this login
HasStat(username) ==
    \E i \in 1..Len(StatsItems(commit_stats)) :
        LET st == StatsItems(commit_stats)[i]
        IN  /\ st.t = "dict"
            /\ "author" \in DOMAIN st.v
            /\ st.v.author.t = "dict"
            /\ "login" \in DOMAIN st.v.author.v
            /\ st.v.author.v.login = username

ZeroTotals(r) == r.total_commits = 0 /\ r.additions = 0 /\ r.deletions = 0

ListingPosition(r) ==
    CHOOSE k \in 1..Len(contributors) :
        NotNull(contributors[k]) /\ RecordOf(r, contributors[k])

\* C7: the records of the report are in descending order of contributions,
\* and records with equal contributions are in listing order.
C7_StableDescending ==
    pc = "output" =>
        \A i \in 1..(Len(report_data.contributors) - 1) :
            LET r1 == report_data.contributors[i]
                r2 == report_data.contributors[i + 1]
            IN  /\ r1.contributions >= r2.contributions
                /\ r1.contributions = r2.contributions =>
                      ListingPosition(r1) < ListingPosition(r2)

\* listing [a(5), b(5), c(9)] with statistics for b and none for a: the
\* report lists c, a, b
C7_Witness ==
    /\ pc = "output"
    /\ contributors = <<Entry(La, 5), Entry(Lb, 5), Entry(Lc, 9)>>
    /\ Len(report_data.contributors) = 3
    /\ report_data.contributors[1].username = Lc
    /\ report_data.contributors[2].username = La
    /\ report_data.contributors[3].username = Lb
    /\ ZeroTotals(report_data.contributors[2])
    /\ report_data.contributors[3].total_commits = 3

(***************************************************************************)
(* Properties of the CSV output.                                           *)
(***************************************************************************)
DigitValue(ch) == CHOOSE d \in 0..9 : Digits[d + 1] = ch

\* the number a reader of the file gets from a column of decimal digits
RECURSIVE ParseDecimal(_)
ParseDecimal(s) ==
    IF Len(s) = 0 THEN 0
    ELSE 10 * ParseDecimal(SubSeq(s, 1, Len(s) - 1)) + DigitValue(s[Len(s)])

\* C11: in the CSV file of a report, Username and Contributions of each row
\* read back as the values of the record, and the row of a contributor
\* without a statistics entry has the empty string in Total Commits,
\* Additions and Deletions.
C11_NoStatsRendersEmpty ==
    (pc = "done" /\ output.file.kind = "csv") =>
        /\ Len(output.file.rows) = Len(report_data.contributors)
        /\ \A i \in 1..Len(output.file.rows) :
              LET row == output.file.rows[i]
                  rec == report_data.contributors[i]
              IN  /\ row.Username = rec.username
                  /\ Len(row.Contributions) > 0
                  /\ ParseDecimal(row.Contributions) = rec.contributions
                  /\ ~HasStat(rec.username) =>
                        /\ row.TotalCommits = <<>>
                        /\ row.Additions = <<>>
                        /\ row.Deletions = <<>>

(***************************************************************************)
(* Properties of the early exits of generate_report.                       *)
(***************************************************************************)
\* nothing of a report has been written or printed
NothingEmitted == output.file = NoFile /\ ~output.header /\ output.table = <<>>

\* C12: without repository metadata the run stops before the contributor
\* listing is requested; without listing entries it stops before a statistics
\* or profile request; in both cases no file is written and no console report
\* is printed.
C12_StopsOnEmptyResult ==
    /\ "contributors" \in requested => Truthy(repo_info)
    /\ (requested \cap {"stats", "user"}) # {} => Len(contributors) > 0
    /\ ~NothingEmitted => (Truthy(repo_info) /\ Len(contributors) > 0)
    /\ pc \notin {"idle", "repo_info", "done"} => Truthy(repo_info)
    /\ pc \notin {"idle", "repo_info", "contributors", "contributors_ret", "done"} =>
          Len(contributors) > 0
    /\ (pc = "done" /\ output.message = "Failed to fetch repository information") =>
          (~Truthy(repo_info) /\ requested = {"repo"} /\ NothingEmitted)
    /\ (pc = "done" /\ output.message =
            "No contributors found or failed to fetch contributor data") =>
          (Len(contributors) = 0 /\ requested = {"repo", "contributors"} /\ NothingEmitted)

\* a run that got the metadata and an empty listing has stopped
C12_Witness ==
    /\ pc = "done"
    /\ Truthy(repo_info)
    /\ Len(contributors) = 0
    /\ output.exc = NoExc
    /\ requested = {"repo", "contributors"}
    /\ NothingEmitted

\* C13: a run on a repository identifier the parser rejects ends with the
\* printed error before any request is issued and without any output; a run
\* on an accepted identifier has issued no request when parsing is over.
C13_RejectedBeforeAnyRequest ==
    /\ (pc # "idle" /\ parse_repo_url(repo_url) = ValueError) =>
          /\ pc = "done"
          /\ output.exc = "ValueError"
          /\ requested = {}
          /\ mrpc = "idle" /\ mrLog = <<>>
          /\ NothingEmitted
          /\ report_data = JNone
    /\ (pc = "repo_info" /\ mrpc = "get1") => requested = {}

\* a run on the rejected identifier 'a/b/a' is over
C13_Witness ==
    /\ pc = "done"
    /\ repo_url = <<"a", Slash, "b", Slash, "a">>
    /\ parse_repo_url(repo_url) = ValueError
    /\ output.message = "Error generating report"
    /\ requested = {}

(***************************************************************************)
(* Properties of a run without statistics or without display names.        *)
(***************************************************************************)
Min(a, b) == IF a <= b THEN a ELSE b

\* the report has been built and emitted whole: a file, or the console
\* header and every row of the table
ReportEmitted ==
    /\ report_data # JNone
    /\ output.exc = NoExc
    /\ \/ output.file # NoFile
       \/ /\ output.header
          /\ Len(output.table) = Min(Len(report_data.contributors), ConsoleRows)

\* the statistics were asked for and the run has no ready statistics
StatsNotReady ==
    /\ "stats" \in requested
    /\ ~(IsList(commit_stats) /\ Len(commit_stats.v) > 0)

\* C14: a run whose statistics fetch ended without ready data still ends
\* with the report emitted, one record per contributor, every record with
\* zero total_commits, additions and deletions.
C14_ReportWithoutStatistics ==
    (pc = "done" /\ StatsNotReady) =>
        /\ ReportEmitted
        /\ Len(report_data.contributors) = Len(Entries)
        /\ \A j \in 1..Len(report_data.contributors) :
              ZeroTotals(report_data.contributors[j])

\* C15: every record of the report has a display name that is a string (the
\* empty string when the profile gave none), and the report is emitted whole
\* in the format asked for, the console table included.
C15_MissingNameDefaultsToEmpty ==
    (pc = "done" /\ report_data # JNone) =>
        /\ \A j \in 1..Len(report_data.contributors) :
              report_data.contributors[j].name # None
        /\ ReportEmitted

(***************************************************************************)
(* Properties of the wait of make_request.                                 *)
(***************************************************************************)
\* C16: the sleep after a rate-limit response lasts max(reset - now, 0) + 60
\* seconds, reset being the X-RateLimit-Reset header (0 when absent) and now
\* the clock reading; it lasts at least 60 seconds, and exactly 60 when the
\* reset time is not ahead of the clock or the header is missing.
C16_WaitFormula ==
    \A k \in 1..Len(mrSleeps) :
        LET r == mrLog[k]
            s == mrSleeps[k]
            reset == IF r.reset.h = "int" THEN r.reset.n ELSE 0
        IN  /\ r.status = 403 /\ r.rate_limit_text
            /\ r.reset.h \in {"int", "absent"}
            /\ s.secs = (IF reset - s.now > 0 THEN reset - s.now ELSE 0) + 60
            /\ s.secs >= 60
            /\ (r.reset.h = "absent" \/ reset <= s.now) => s.secs = 60

\* a reset time 50 seconds ahead of the clock: a sleep of 110 seconds
C16_Witness ==
    /\ Len(mrSleeps) = 1
    /\ mrLog[1].reset = HeaderInt(150)
    /\ mrSleeps[1] = [now |-> 100, secs |-> 110]

(***************************************************************************)
(* Properties of the console table.                                        *)
(***************************************************************************)
\* C17: the console table of a report of n records has min(n, 20) rows; row
\* i has rank i and is made from record i of the report, its username cut to
\* the first 19 characters.
C17_ConsoleTable ==
    (pc = "done" /\ output.header) =>
        /\ Len(output.table) = Min(Len(report_data.contributors), 20)
        /\ \A i \in 1..Len(output.table) :
              LET row == output.table[i]
                  rec == report_data.contributors[i]
              IN  /\ row.rank = i
                  /\ row.contributions = rec.contributions
                  /\ Len(row.username) = Min(Len(rec.username), 19)
                  /\ \A k \in 1..Len(row.username) : row.username[k] = rec.username[k]

(***************************************************************************)
(* Properties of the totals of a record.                                   *)
(***************************************************************************)
\* the statistics entry st is an entry of the author username
AuthorIs(st, username) ==
    /\ st.t = "dict"
    /\ "author" \in DOMAIN st.v
    /\ st.v.author.t = "dict"
    /\ "login" \in DOMAIN st.v.author.v
    /\ st.v.author.v.login = username

\* what a weekly bucket counts for a field: nothing when the bucket is null
\* or has no such field
BucketValue(week, key) ==
    IF week.t = "dict" /\ key \in DOMAIN week.v THEN week.v[key] ELSE 0

BucketsOf(st) == IF "weeks" \in DOMAIN st.v THEN st.v.weeks ELSE <<>>

RECURSIVE BucketSum(_, _, _)
BucketSum(weeks, key, n) ==
    IF n = 0 THEN 0 ELSE BucketSum(weeks, key, n - 1) + BucketValue(weeks[n], key)

\* the record has the totals of the statistics entry st
TotalsFrom(rec, st) ==
    /\ rec.total_commits = BucketSum(BucketsOf(st), "c", Len(BucketsOf(st)))
    /\ rec.additions = BucketSum(BucketsOf(st), "a", Len(BucketsOf(st)))
    /\ rec.deletions = BucketSum(BucketsOf(st), "d", Len(BucketsOf(st)))

\* C18: the totals of a record are those of the first statistics entry, in
\* list order, whose author login is the record's username; entries of the
\* same login further down the list do not count.
C18_FirstMatchOnly ==
    pc = "output" =>
        \A j \in 1..Len(report_data.contributors) :
            LET rec == report_data.contributors[j]
                items == StatsItems(commit_stats)
            IN  \A i \in 1..Len(items) :
                    (/\ AuthorIs(items[i], rec.username)
                     /\ \A k \in 1..(i - 1) : ~AuthorIs(items[k], rec.username))
                        => TotalsFrom(rec, items[i])

\* two entries for the login b with different sums: the record of b has the
\* sums of the first one
C18_Witness ==
    /\ pc = "output"
    /\ \E j \in 1..Len(report_data.contributors) :
          LET rec == report_data.contributors[j]
              items == StatsItems(commit_stats)
          IN  /\ rec.username = Lb
              /\ Len(items) >= 2
              /\ AuthorIs(items[1], Lb)
              /\ AuthorIs(items[2], Lb)
              /\ TotalsFrom(rec, items[1])
              /\ ~TotalsFrom(rec, items[2])

\* C19: the totals of a record with a matching statistics entry are the sums
\* of the c, a and d fields over the weekly buckets of that entry, a bucket
\* that is null or lacks the field counting zero; such buckets do not make
\* the merge fail.
C19_WeeklySums ==
    pc = "output" =>
        /\ Len(report_data.contributors) = Len(Entries)
        /\ \A j \in 1..Len(report_data.contributors) :
              LET rec == report_data.contributors[j]
                  items == StatsItems(commit_stats)
              IN  HasStat(rec.username) =>
                      \E i \in 1..Len(items) :
                          /\ AuthorIs(items[i], rec.username)
                          /\ TotalsFrom(rec, items[i])

\* buckets (1, 2, 3), null and (2, -, -): the sums are 3, 2 and 3
C19_Witness ==
    /\ pc = "output"
    /\ \E j \in 1..Len(report_data.contributors) :
          LET rec == report_data.contributors[j]
              items == StatsItems(commit_stats)
          IN  /\ rec.username = Lb
              /\ Len(items) >= 1
              /\ BucketsOf(items[1]) = <<Week(1, 2, 3), JNone, JDict([c |-> 2])>>
              /\ rec.total_commits = 3
              /\ rec.additions = 2
              /\ rec.deletions = 3

(***************************************************************************)
(* Properties of the error handling of generate_report.                    *)
(***************************************************************************)
\* C20: a run in which an exception was raised ends inside generate_report
\* with the error printed, and nothing of a report has been produced: no
\* file, no line of the console report.
C20_ErrorsLeaveNoReport ==
    /\ pc = "done" => (mrpc = "idle" /\ mrRaised = NoExc)
    /\ (pc = "done" /\ output.exc # NoExc) =>
          /\ output.message = "Error generating report"
          /\ NothingEmitted

====
